---- MODULE Spec2Model ----
(***************************************************************************)
(* Real-time collaborative drawing canvas: the room synchronisation core   *)
(* of server/server.ts (rooms, stroke log with tombstones, broadcast) and  *)
(* the client of client/main.ts and client/canvas.ts (CanvasBoard, Wire).  *)
(*                                                                         *)
(* A JavaScript object is a function from its own field names to values:   *)
(* a field that is undefined is a field that is absent from the DOMAIN.    *)
(***************************************************************************)
EXTENDS Integers, Sequences, FiniteSets, TLC

\* ------------------------------------------------------------------ bounds
\* Strokes a room's log may hold, and points one stroke may hold.
MaxStrokes == 3
MaxPoints == 2

Rooms == {"r1", "default"}
WS == {"A", "B", "C"}
Ids == {"x", "y"}
Users == {"u1", "u2"}
\* the browser pages (each has one connection, named as the page)
Pages == {"A", "B"}
Points == {"p1", "p2"}

\* The value of an absent field, and of the optional parameter `except`.
Undefined == "undefined"

VARIABLES
  up,      \* the server process is running (no handler has thrown)
  rooms,   \* rooms: Map<string, Room>, a function on the ids created so far
  conn,    \* per connection: [readyState, roomId] (ws.readyState and the closure's roomId)
  sent,    \* per connection: the messages ws.send was called with by the last handler
  last,    \* the last event handled: its kind, connection, parsed message, and the room's strokes before it
  begun,   \* per room: the op-begin messages processed so far, in order
  undone,  \* per room: the strokes (log indices) tombstoned by an undo and still
           \* tombstoned, in the order the undos were processed (kept by SpecUndo only)
  prior,   \* the event handled before the last one (kept by SpecUndo only)
  client,  \* per browser page: the CanvasBoard, the Wire's socket and the drawing state of main.ts
  c2s,     \* per connection: the messages sent by the page and not yet handled by the server
  s2c      \* per connection: the messages sent by the server and not yet handled by the page

vars == <<up, rooms, conn, sent, last, begun, undone, prior, client, c2s, s2c>>

\* ------------------------------------------------------------ JS helpers
\* o[k], or undefined
Get(o, k) == IF k \in DOMAIN o THEN o[k] ELSE Undefined

\* { ...o, k: v }
Spread(o, k, v) == [f \in DOMAIN o \cup {k} |-> IF f = k THEN v ELSE o[f]]

\* the object literal {type: t, k1: m.k1, ...} after JSON.stringify, which drops
\* the fields whose value is undefined
Pick(t, m, keys) ==
  [f \in {"type"} \cup (keys \cap DOMAIN m) |-> IF f = "type" THEN t ELSE m[f]]

\* !!s.tombstone
Tombstoned(s) == "tombstone" \in DOMAIN s /\ s.tombstone = TRUE

EmptyObj == [f \in {} |-> TRUE]

\* null, where the other values are objects
Null == [null |-> TRUE]

\* JSON.parse(raw.toString()) inside try/catch with m = {} as the fallback.
\* A raw payload is [json |-> value] when it parses, [text |-> ...] when it does not,
\* and [null |-> TRUE] for the JSON text "null".
Parse(raw) == IF "json" \in DOMAIN raw THEN raw.json ELSE EmptyObj

IsNull(raw) == "null" \in DOMAIN raw

\* ------------------------------------------------------------- rooms
EmptyRoom == [strokes |-> <<>>, clients |-> {}, users |-> <<>>]

\* (variant: a room that nobody is in starts afresh when it is looked up)
getRoom_Fresh(rs, id) ==
  IF id \in DOMAIN rs /\ rs[id].clients # {} THEN rs
  ELSE [r \in DOMAIN rs \cup {id} |-> IF r = id THEN EmptyRoom ELSE rs[r]]

getRoom(rs, id) ==
  IF id \in DOMAIN rs THEN rs
  ELSE [r \in DOMAIN rs \cup {id} |-> IF r = id THEN EmptyRoom ELSE rs[r]]

NoneSent == [w \in WS |-> <<>>]

\* (variant: the sender is not skipped)
broadcast_ToAll(rs, cn, roomId, msg, except) ==
  [w \in WS |->
     IF w \in getRoom(rs, roomId)[roomId].clients /\ cn[w].readyState = "OPEN"
     THEN <<msg>> ELSE <<>>]

\* (variant: readyState is not looked at)
broadcast_AnyState(rs, cn, roomId, msg, except) ==
  [w \in WS |->
     IF w \in getRoom(rs, roomId)[roomId].clients /\ w # except
     THEN <<msg>> ELSE <<>>]

\* broadcast(roomId, msg, except): the ws.send calls it makes
broadcast(rs, cn, roomId, msg, except) ==
  [w \in WS |->
     IF w \in getRoom(rs, roomId)[roomId].clients
        /\ w # except
        /\ cn[w].readyState = "OPEN"
     THEN <<msg>> ELSE <<>>]

\* ------------------------------------------------------------- stroke log
\* (variant: the last match instead of the first)
FindById_Last(strokes, id) ==
  LET hits == {i \in 1..Len(strokes) : Get(strokes[i], "id") = id}
  IN IF hits = {} THEN 0 ELSE CHOOSE i \in hits : \A j \in hits : i >= j

\* room.strokes.find(st => st.id === m.id): the index of the first match, 0 for none
FindById(strokes, id) ==
  LET hits == {i \in 1..Len(strokes) : Get(strokes[i], "id") = id}
  IN IF hits = {} THEN 0 ELSE CHOOSE i \in hits : \A j \in hits : i <= j

\* (variant: the last tombstoned stroke instead of the first)
FindTombstoned_Last(strokes) ==
  LET hits == {i \in 1..Len(strokes) : Tombstoned(strokes[i])}
  IN IF hits = {} THEN 0 ELSE CHOOSE i \in hits : \A j \in hits : i >= j

\* room.strokes.find(st => st.tombstone)
FindTombstoned(strokes) ==
  LET hits == {i \in 1..Len(strokes) : Tombstoned(strokes[i])}
  IN IF hits = {} THEN 0 ELSE CHOOSE i \in hits : \A j \in hits : i <= j

\* (variant: the scan runs from the oldest stroke forward)
FindLastVisible_Forward(strokes) ==
  LET hits == {i \in 1..Len(strokes) : ~Tombstoned(strokes[i])}
  IN IF hits = {} THEN 0 ELSE CHOOSE i \in hits : \A j \in hits : i <= j

\* for (i = length - 1; i >= 0; i--) if (!strokes[i].tombstone) ...
FindLastVisible(strokes) ==
  LET hits == {i \in 1..Len(strokes) : ~Tombstoned(strokes[i])}
  IN IF hits = {} THEN 0 ELSE CHOOSE i \in hits : \A j \in hits : i >= j

\* (variant: an op-begin whose id is in the log starts that stroke again)
OpBegin_Replace(strokes, m) ==
  IF FindById(strokes, Get(m, "id")) = 0
  THEN Append(strokes, Spread(m, "points", <<>>))
  ELSE [strokes EXCEPT ![FindById(strokes, Get(m, "id"))] = Spread(m, "points", <<>>)]

\* case "op-begin": room.strokes.push({ ...m, points: [] })
OpBegin(strokes, m) == Append(strokes, Spread(m, "points", <<>>))

\* (variant: an unknown id creates a stroke)
OpPoints_Create(strokes, m) ==
  LET i == FindById(strokes, Get(m, "id"))
  IN IF i = 0 THEN Append(strokes, [id |-> Get(m, "id"), points |-> <<>>])
     ELSE [strokes EXCEPT ![i] = Spread(@, "points", @.points \o m.pts)]

\* (variant: the points of the message replace the points of the stroke)
OpPoints_Replace(strokes, m) ==
  LET i == FindById(strokes, Get(m, "id"))
  IN IF i = 0 THEN strokes
     ELSE [strokes EXCEPT ![i] = Spread(@, "points", m.pts)]

\* case "op-points": if (s) s.points.push(...m.pts)
OpPoints(strokes, m) ==
  LET i == FindById(strokes, Get(m, "id"))
  IN IF i = 0 THEN strokes
     ELSE [strokes EXCEPT ![i] = Spread(@, "points", @.points \o m.pts)]

\* (variant: undo tombstones the newest stroke, tombstoned already or not)
UndoLast_Newest(strokes) ==
  IF strokes = <<>> THEN strokes
  ELSE [strokes EXCEPT ![Len(strokes)] = Spread(@, "tombstone", TRUE)]

\* (variant: undo removes the stroke from the log)
UndoLast_Remove(strokes) ==
  LET i == FindLastVisible(strokes)
  IN IF i = 0 THEN strokes
     ELSE SubSeq(strokes, 1, i - 1) \o SubSeq(strokes, i + 1, Len(strokes))

\* (variant: with no visible stroke left, undo flips the newest one back)
UndoLast_Toggle(strokes) ==
  LET i == FindLastVisible(strokes)
  IN IF i # 0 THEN [strokes EXCEPT ![i] = Spread(@, "tombstone", TRUE)]
     ELSE IF strokes = <<>> THEN strokes
     ELSE [strokes EXCEPT ![Len(strokes)] = Spread(@, "tombstone", FALSE)]

\* case "undo"
UndoLast(strokes) ==
  LET i == FindLastVisible(strokes)
  IN IF i = 0 THEN strokes
     ELSE [strokes EXCEPT ![i] = Spread(@, "tombstone", TRUE)]

\* case "redo"
RedoLast(strokes) ==
  LET i == FindTombstoned(strokes)
  IN IF i = 0 THEN strokes
     ELSE [strokes EXCEPT ![i] = Spread(@, "tombstone", FALSE)]

\* (variant: every hello adds an entry)
UsersSet_Append(users, m) ==
  Append(users, [userId |-> Get(m, "userId"), username |-> Get(m, "username"),
                 color |-> Get(m, "color")])

\* (variant: the directory holds the user of the last hello only)
UsersSet_Only(users, m) ==
  <<[userId |-> Get(m, "userId"), username |-> Get(m, "username"),
     color |-> Get(m, "color")]>>

\* case "hello": room.users.set(m.userId, {username, color}); a Map keeps the
\* insertion order of its keys and set() on an existing key keeps its place
UsersSet(users, m) ==
  LET e == [userId |-> Get(m, "userId"), username |-> Get(m, "username"),
            color |-> Get(m, "color")]
      hits == {i \in 1..Len(users) : users[i].userId = e.userId}
  IN IF hits = {} THEN Append(users, e)
     ELSE [i \in 1..Len(users) |-> IF i \in hits THEN e ELSE users[i]]

\* (variant: JSON.parse outside any try/catch)
Throws_OnBadJson(strokes, raw) ==
  \/ "text" \in DOMAIN raw
  \/ IsNull(raw)
  \/ /\ Get(Parse(raw), "type") = "op-points"
     /\ FindById(strokes, Get(Parse(raw), "id")) # 0
     /\ "pts" \notin DOMAIN Parse(raw)

\* the message handler throws: m is null (m.type of null), or the spread of an
\* undefined m.pts into push() for a stroke that was found
Throws(strokes, raw) ==
  \/ IsNull(raw)
  \/ /\ Get(Parse(raw), "type") = "op-points"
     /\ FindById(strokes, Get(Parse(raw), "id")) # 0
     /\ "pts" \notin DOMAIN Parse(raw)

\* (variant: op-end marks the stroke as ended)
StrokesAfter_EndMarks(strokes, m) ==
  LET t == Get(m, "type")
      i == FindById(strokes, Get(m, "id"))
  IN CASE t = "op-begin" -> OpBegin(strokes, m)
       [] t = "op-points" -> OpPoints(strokes, m)
       [] t = "op-end" -> IF i = 0 THEN strokes
                          ELSE [strokes EXCEPT ![i] = Spread(@, "ended", TRUE)]
       [] t = "undo" -> UndoLast(strokes)
       [] t = "redo" -> RedoLast(strokes)
       [] OTHER -> strokes

\* (variant: op-end freezes the stroke, later points for it are not applied)
StrokesAfter_Frozen(strokes, m) ==
  LET t == Get(m, "type")
      i == FindById(strokes, Get(m, "id"))
  IN CASE t = "op-begin" -> OpBegin(strokes, m)
       [] t = "op-points" -> IF i # 0 /\ "frozen" \in DOMAIN strokes[i] THEN strokes
                             ELSE OpPoints(strokes, m)
       [] t = "op-end" -> IF i = 0 THEN strokes
                          ELSE [strokes EXCEPT ![i] = Spread(@, "frozen", TRUE)]
       [] t = "undo" -> UndoLast(strokes)
       [] t = "redo" -> RedoLast(strokes)
       [] OTHER -> strokes

\* the room's strokes after the switch statement
StrokesAfter(strokes, m) ==
  LET t == Get(m, "type")
  IN CASE t = "op-begin" -> OpBegin(strokes, m)
       [] t = "op-points" -> OpPoints(strokes, m)
       [] t = "undo" -> UndoLast(strokes)
       [] t = "redo" -> RedoLast(strokes)
       [] OTHER -> strokes

UsersAfter(users, m) ==
  IF Get(m, "type") = "hello" THEN UsersSet(users, m) ELSE users

\* the users list of the "users" message
UsersList(users) == users

\* (variant: the snapshot leaves out the tombstoned strokes)
Snapshot_Visible(strokes) ==
  [type |-> "snapshot", strokes |-> SelectSeq(strokes, LAMBDA st : ~Tombstoned(st))]

\* { type: "snapshot", strokes: room.strokes }
Snapshot(strokes) == [type |-> "snapshot", strokes |-> strokes]

\* the ws.send calls of the switch statement, given the rooms after its mutation
SentBy(rs, cn, w, m) ==
  LET t == Get(m, "type")
      roomId == cn[w].roomId
      room == rs[roomId]
  IN CASE t = "get-snapshot" ->
            [NoneSent EXCEPT ![w] = <<Snapshot(room.strokes)>>]
       [] t = "op-begin" ->
            broadcast(rs, cn, roomId,
                      [type |-> "begin", stroke |-> Spread(m, "points", <<>>)], w)
       [] t = "op-points" ->
            broadcast(rs, cn, roomId, Pick("point", m, {"id", "pts"}), w)
       [] t = "op-end" ->
            broadcast(rs, cn, roomId, Pick("end", m, {"id"}), w)
       [] t = "undo" -> broadcast(rs, cn, roomId, [type |-> "undo"], Undefined)
       [] t = "redo" -> broadcast(rs, cn, roomId, [type |-> "redo"], Undefined)
       [] t = "cursor" ->
            broadcast(rs, cn, roomId,
                      Pick("cursor", m, {"userId", "username", "color", "nx", "ny"}), w)
       [] t = "hello" ->
            broadcast(rs, cn, roomId,
                      [type |-> "users", users |-> UsersList(room.users)], Undefined)
       [] OTHER -> NoneSent

\* the log indices whose tombstone flag differs between two logs of equal length
Toggled(before, after) ==
  {i \in 1..Len(before) : Tombstoned(before[i]) # Tombstoned(after[i])}

RECURSIVE SetToSeq(_)
SetToSeq(S) ==
  IF S = {} THEN <<>>
  ELSE LET i == CHOOSE x \in S : \A y \in S : x <= y
       IN <<i>> \o SetToSeq(S \ {i})

\* the record of the undos still in effect, after a message that took the log
\* from `before` to `after`
UndoneAfter(stack, before, after, m) ==
  LET t == Get(m, "type")
  IN CASE t = "undo" -> stack \o SetToSeq(Toggled(before, after))
       [] t = "redo" -> SelectSeq(stack, LAMBDA i : i \notin Toggled(before, after))
       [] OTHER -> stack

\* ------------------------------------------------------------- server events
\* (variant: the count of the other sessions)
Presence_Others(room) ==
  [type |-> "presence", users |-> Cardinality(room.clients) - 1]

\* { type: "presence", users: room.clients.size }
Presence(room) == [type |-> "presence", users |-> Cardinality(room.clients)]

\* (variant: the room parameter as it is, also when it is missing)
roomIdOf_Raw(param) == param

\* params.get("room") || "default": a missing parameter (null) and an empty one
\* name the default room
roomIdOf(param) == IF param \in {Undefined, ""} THEN "default" ELSE param

\* wss.on("connection"): join the room named by the connection's room parameter
Connection(w, param) ==
  /\ up
  /\ conn[w].readyState = "NONE"
  /\ LET roomId == roomIdOf(param)
         rs0 == getRoom(rooms, roomId)
         rs1 == [rs0 EXCEPT ![roomId].clients = @ \cup {w}]
         cn1 == [conn EXCEPT ![w] = [readyState |-> "OPEN", roomId |-> roomId]]
     IN /\ rooms' = rs1
        /\ conn' = cn1
        /\ sent' = broadcast(rs1, cn1, roomId,
                     Presence(rs1[roomId]),
                     Undefined)
        /\ last' = [kind |-> "connection", ws |-> w, roomId |-> roomId,
                    m |-> EmptyObj, pre |-> rs0[roomId].strokes, param |-> param]
  /\ UNCHANGED <<up, begun>>

\* the peer's close frame has arrived: the socket is CLOSING and still in room.clients
Closing(w) ==
  /\ up
  /\ conn[w].readyState = "OPEN"
  /\ conn' = [conn EXCEPT ![w].readyState = "CLOSING"]
  /\ sent' = NoneSent
  /\ last' = [kind |-> "closing", ws |-> w, roomId |-> conn[w].roomId,
              m |-> EmptyObj, pre |-> rooms[conn[w].roomId].strokes]
  /\ UNCHANGED <<up, rooms, begun>>

\* ws.on("close")
Close(w) ==
  /\ up
  /\ conn[w].readyState \in {"OPEN", "CLOSING"}
  /\ LET roomId == conn[w].roomId
         rs1 == [rooms EXCEPT ![roomId].clients = @ \ {w}]
         cn1 == [conn EXCEPT ![w] = [readyState |-> "NONE", roomId |-> Undefined]]
     IN /\ rooms' = rs1
        /\ conn' = cn1
        /\ sent' = broadcast(rs1, cn1, roomId,
                     Presence(rs1[roomId]),
                     Undefined)
        /\ last' = [kind |-> "close", ws |-> w, roomId |-> roomId,
                    m |-> EmptyObj, pre |-> rooms[roomId].strokes]
  /\ UNCHANGED <<up, begun>>

\* ws.on("message")
Message(w, raw) ==
  /\ up
  /\ conn[w].readyState = "OPEN"
  /\ LET roomId == conn[w].roomId
         room == rooms[roomId]
         m == Parse(raw)
     IN /\ last' = [kind |-> "message", ws |-> w, roomId |-> roomId,
                    m |-> IF IsNull(raw) THEN [null |-> TRUE] ELSE m,
                    pre |-> room.strokes, raw |-> raw]
        /\ IF Throws(room.strokes, raw)
           THEN /\ up' = FALSE
                /\ sent' = NoneSent
                /\ UNCHANGED <<rooms, conn, begun>>
           ELSE LET rs1 == [rooms EXCEPT
                              ![roomId].strokes = StrokesAfter(@, m),
                              ![roomId].users = UsersAfter(@, m)]
                IN /\ rooms' = rs1
                   /\ sent' = SentBy(rs1, conn, w, m)
                   /\ begun' = IF Get(m, "type") = "op-begin"
                               THEN [begun EXCEPT ![roomId] = Append(@, m)]
                               ELSE begun
                   /\ UNCHANGED <<up, conn>>

\* a page after main.ts has run: an empty board, a Wire whose socket is connecting,
\* no stroke in progress. readyState is the state of this.ws, timers the number
\* of reconnect timers that have not fired, stale the number of sockets that
\* this.ws held before and that are not closed
NewPage ==
  [readyState |-> "CONNECTING", ops |-> <<>>, activeByUser |-> EmptyObj,
   cursors |-> EmptyObj, drawing |-> FALSE, current |-> Null, lastSend |-> 0,
   ids |-> 0, moves |-> 0, keys |-> 0, timers |-> 0, stale |-> 0]

NoEvent ==
  [kind |-> "none", ws |-> Undefined, roomId |-> Undefined, m |-> EmptyObj, pre |-> <<>>]

Init ==
  /\ up = TRUE
  /\ rooms = [r \in {} |-> EmptyRoom]
  /\ conn = [w \in WS |-> [readyState |-> "NONE", roomId |-> Undefined]]
  /\ sent = NoneSent
  /\ last = NoEvent
  /\ begun = [r \in Rooms |-> <<>>]
  /\ undone = [r \in Rooms |-> <<>>]
  /\ prior = NoEvent
  /\ client = [c \in Pages |-> NewPage]
  /\ c2s = [w \in WS |-> <<>>]
  /\ s2c = [w \in WS |-> <<>>]

\* ------------------------------------------------------------- inputs
\* the op-begin message of client/main.ts begin(): {type, ...current}
BeginMsg(id, userId) ==
  [type |-> "op-begin", id |-> id, userId |-> userId,
   color |-> "#1f77b4", size |-> 4, tool |-> "brush"]

PointsMsg(id, pts) == [type |-> "op-points", id |-> id, pts |-> pts]

HelloMsg(userId, username) ==
  [type |-> "hello", userId |-> userId, username |-> username, color |-> "#1f77b4"]

CursorMsg(userId) ==
  [type |-> "cursor", boardId |-> "r1", userId |-> userId, username |-> "ann",
   color |-> "#1f77b4",
   nx |-> "0.5", ny |-> "0.5"]

Json(ms) == {[json |-> m] : m \in ms}

\* what a session may send in the stroke-log specification: the messages that
\* write the log, are answered from it or name a stroke (hello and cursor are sent
\* in Spec), strokes that may share an id, an op-begin with a foreign tombstone
\* field, an op-points without pts, the JSON text null
LogPayloads ==
  Json({BeginMsg("x", "u1"), Spread(BeginMsg("y", "u2"), "tombstone", TRUE)})
  \cup Json({PointsMsg("x", <<"p1">>), PointsMsg("y", <<"p1">>),
             PointsMsg("x", <<"p1", "p2">>)})
  \cup Json({[type |-> "op-points", id |-> "x"]})
  \cup Json({[type |-> "op-end", id |-> "x"]})
  \cup Json({[type |-> "undo"], [type |-> "redo"], [type |-> "get-snapshot"]})
  \cup {[null |-> TRUE]}

\* the number of points in a log
RECURSIVE PointCount(_)
PointCount(strokes) ==
  IF strokes = <<>> THEN 0
  ELSE Len(Head(strokes).points) + PointCount(Tail(strokes))

\* the bounds of the model: a log of at most MaxStrokes strokes and MaxPoints points
WithinBounds(w, raw) ==
  LET after == StrokesAfter(rooms[conn[w].roomId].strokes, Parse(raw))
  IN IF Throws(rooms[conn[w].roomId].strokes, raw) THEN TRUE
     ELSE Len(after) <= MaxStrokes /\ PointCount(after) <= MaxPoints

Receive(w, raw) ==
  /\ conn[w].readyState = "OPEN"
  /\ WithinBounds(w, raw)
  /\ Message(w, raw)

\* ------------------------------------------------------------- specifications
\* The stroke log of one room under every interleaving of the messages of two
\* sessions. (A joins before B: the two are interchangeable.)
JoinLog ==
  /\ \/ Connection("A", "r1")
     \/ conn["A"].readyState = "OPEN" /\ Connection("B", "r1")
  /\ UNCHANGED <<undone, prior, client, c2s, s2c>>

ReceiveLog ==
  /\ \E w \in {"A", "B"}, raw \in LogPayloads : Receive(w, raw)
  /\ UNCHANGED <<undone, prior, client, c2s, s2c>>

NextLog == JoinLog \/ ReceiveLog

SpecLog == Init /\ [][NextLog]_vars

\* payloads the switch has no case for: text that is not JSON, a type that is
\* not known, an object without a type
BadPayloads ==
  {[text |-> "not json"]} \cup Json({[type |-> "bogus"], EmptyObj})

\* Rooms and sessions: three connections that join, half-close and leave two
\* rooms, and send messages of every type; every stroke has an id of its own.
RoomPayloads ==
  Json({BeginMsg("x", "u1"), PointsMsg("y", <<"p1">>),
        [type |-> "op-end", boardId |-> "r1", id |-> "x"],
        [type |-> "undo"], [type |-> "redo"], [type |-> "get-snapshot"],
        HelloMsg("u1", "ann"), CursorMsg("u1")})
  \cup BadPayloads \cup {[null |-> TRUE]}

\* no stroke of the room carries the id of this op-begin (ids are generated
\* by nanoid on the client, client/main.ts begin())
FreshId(w, raw) ==
  Get(Parse(raw), "type") = "op-begin"
    => FindById(rooms[conn[w].roomId].strokes, Get(Parse(raw), "id")) = 0

\* the room parameter a connection may carry: A and B ask for r1, C for r1 or
\* for no room (a URL without the parameter, or with an empty one)
RoomParam(w) == IF w = "C" THEN {"r1", Undefined, ""} ELSE {"r1"}

Join ==
  /\ \E w \in WS : \E r \in RoomParam(w) : Connection(w, r)
  /\ UNCHANGED <<undone, prior, client, c2s, s2c>>

HalfClose ==
  /\ \E w \in WS : Closing(w)
  /\ UNCHANGED <<undone, prior, client, c2s, s2c>>

Leave ==
  /\ \E w \in WS : Close(w)
  /\ UNCHANGED <<undone, prior, client, c2s, s2c>>

ReceiveRoom ==
  /\ \E w \in WS, raw \in RoomPayloads :
       /\ conn[w].readyState = "OPEN"
       /\ FreshId(w, raw)
       /\ Receive(w, raw)
  /\ UNCHANGED <<undone, prior, client, c2s, s2c>>

Next == Join \/ HalfClose \/ Leave \/ ReceiveRoom

Spec == Init /\ [][Next]_vars

\* The user directory: the connections of Spec send hello for two users, one of
\* them under two names, and one op-begin.
UsersPayloads ==
  Json({HelloMsg("u1", "ann"), HelloMsg("u1", "bob"), HelloMsg("u2", "ann"),
        BeginMsg("x", "u1")})

ReceiveUsers ==
  /\ \E w \in WS, raw \in UsersPayloads :
       /\ conn[w].readyState = "OPEN"
       /\ FreshId(w, raw)
       /\ Receive(w, raw)
  /\ UNCHANGED <<undone, prior, client, c2s, s2c>>

NextUsers == Join \/ HalfClose \/ Leave \/ ReceiveUsers

SpecUsers == Init /\ [][NextUsers]_vars

\* Undo and redo with the record of the undos still in effect.
UndoPayloads ==
  Json({BeginMsg("x", "u1"), BeginMsg("y", "u2"), [type |-> "undo"], [type |-> "redo"]})

JoinUndo ==
  /\ \/ Connection("A", "r1")
     \/ conn["A"].readyState = "OPEN" /\ Connection("B", "r1")
  /\ prior' = last
  /\ UNCHANGED <<undone, client, c2s, s2c>>

ReceiveUndo ==
  \E w \in {"A", "B"}, raw \in UndoPayloads :
    /\ Receive(w, raw)
    /\ prior' = last
    /\ undone' = [undone EXCEPT ![conn[w].roomId] =
                   UndoneAfter(@, rooms[conn[w].roomId].strokes,
                               rooms'[conn[w].roomId].strokes, Parse(raw))]
    /\ UNCHANGED <<client, c2s, s2c>>

NextUndo == JoinUndo \/ ReceiveUndo

SpecUndo == Init /\ [][NextUndo]_vars

\* ------------------------------------------------------------- the page
\* the board of the page's URL (boardId in main.ts, the room parameter of the Wire)
boardId == "r1"

\* const userId = nanoid(6): one id per page load
userId(c) == IF c = "A" THEN "u1" ELSE "u2"

\* nanoid(10) in begin(): the n-th stroke id a page generates
nanoid(c, n) == IF c = "A" THEN <<"x", "x2">>[n] ELSE <<"y", "y2">>[n]

\* JSON.stringify(obj), read back by JSON.parse: fields that are undefined are
\* absent on both sides
Stringify(obj) == [json |-> obj]

\* CanvasBoard.beginLocalStroke(meta, first)
beginLocalStroke(p, meta, first) ==
  [p EXCEPT !.ops = Append(@, Spread(meta, "points", <<first>>))]

\* CanvasBoard.pushLocalPoint(pt): the last stroke of ops, whoever made it
pushLocalPoint(p, pt) ==
  IF p.ops = <<>> THEN p
  ELSE [p EXCEPT !.ops[Len(p.ops)].points = Append(@, pt)]

\* CanvasBoard.applyRemoteStroke(s). activeByUser maps a user to the stroke
\* object it tracks: the index of that object in ops, or 0 when the object is no
\* longer an element of ops
applyRemoteStroke(p, s) ==
  [p EXCEPT !.ops = Append(@, Spread(s, "points", <<>>)),
            !.activeByUser = Spread(@, Get(s, "userId"), Len(p.ops) + 1)]

\* CanvasBoard.updateRemotePoint(uid, pt)
updateRemotePoint(p, uid, pt) ==
  IF uid \notin DOMAIN p.activeByUser THEN p
  ELSE IF p.activeByUser[uid] = 0 THEN p
  ELSE [p EXCEPT !.ops[p.activeByUser[uid]].points = Append(@, pt)]

\* CanvasBoard.finishRemoteStroke(uid)
finishRemoteStroke(p, uid) ==
  [p EXCEPT !.activeByUser = [k \in DOMAIN @ \ {uid} |-> @[k]]]

\* CanvasBoard.setSnapshot(strokes): ops is a list of fresh clones, so the
\* objects activeByUser tracks are no longer elements of ops
setSnapshot(p, strokes) ==
  [p EXCEPT !.ops = strokes,
            !.activeByUser = [k \in DOMAIN @ |-> 0]]

\* the index of board.ops.find(s => s.id === m.id), 0 for none
FindOp(ops, id) ==
  LET hits == {i \in 1..Len(ops) : Get(ops[i], "id") = id}
  IN IF hits = {} THEN 0 ELSE CHOOSE i \in hits : \A j \in hits : i <= j

\* wire.on("point"): m.pts[0] of a missing pts throws, inside the try of the
\* Wire's message listener
OnPoint(p, m) ==
  LET i == FindOp(p.ops, Get(m, "id"))
  IN IF i = 0 \/ "pts" \notin DOMAIN m THEN p
     ELSE updateRemotePoint(p, Get(p.ops[i], "userId"),
                            IF m.pts = <<>> THEN Undefined ELSE m.pts[1])

\* the page after the listeners of msg.type have run (presence only writes to
\* the document, users has no listener)
PageAfter(p, m) ==
  LET t == Get(m, "type")
  IN CASE t = "snapshot" -> setSnapshot(p, m.strokes)
       [] t = "begin" -> applyRemoteStroke(p, m.stroke)
       [] t = "point" -> OnPoint(p, m)
       [] t = "end" -> finishRemoteStroke(p, Get(m, "id"))
       [] t = "cursor" -> [p EXCEPT !.cursors = Spread(@, Get(m, "userId"), m)]
       [] OTHER -> p

\* (variant: a redo does not make the page ask for the snapshot)
PageSends_UndoOnly(m) ==
  IF Get(m, "type") = "undo"
  THEN <<[type |-> "get-snapshot", boardId |-> boardId]>>
  ELSE <<>>

\* the objects the listeners of msg.type pass to wire.send
PageSends(m) ==
  IF Get(m, "type") \in {"undo", "redo"}
  THEN <<[type |-> "get-snapshot", boardId |-> boardId]>>
  ELSE <<>>

\* (variant: what is sent while the socket is not open is kept and written later)
WireSend_Always(q, readyState, objs) ==
  q \o [i \in 1..Len(objs) |-> Stringify(objs[i])]

\* Wire.send for each object of objs: stringified and written when the socket is
\* open, dropped otherwise
WireSend(q, readyState, objs) ==
  IF readyState = "OPEN"
  THEN q \o [i \in 1..Len(objs) |-> Stringify(objs[i])]
  ELSE q

\* { ...a, ...b }
Merge(a, b) == [f \in DOMAIN a \cup DOMAIN b |-> IF f \in DOMAIN b THEN b[f] ELSE a[f]]

\* ------------------------------------------------------------- page events
\* the messages of wire.on("open")
Hello(c) ==
  [type |-> "hello", boardId |-> boardId, userId |-> userId(c),
   username |-> "Guest", color |-> "#1f77b4"]

GetSnapshot == [type |-> "get-snapshot", boardId |-> boardId]

\* (variant: the open handler sends hello and then, in place of asking for the
\* snapshot, the strokes the board holds)
Open_Resend(c) ==
  /\ client[c].readyState = "CONNECTING"
  /\ conn[c].readyState = "OPEN"
  /\ client' = [client EXCEPT ![c].readyState = "OPEN"]
  /\ c2s' = [c2s EXCEPT ![c] =
               WireSend(@, "OPEN",
                 <<Hello(c)>> \o
                 [i \in 1..Len(client[c].ops) |->
                    Merge(client[c].ops[i], [type |-> "op-begin", boardId |-> boardId])])]
  /\ UNCHANGED <<up, rooms, conn, sent, last, begun, s2c>>

\* wire.on("open"): the socket is open on both sides
Open(c) ==
  /\ client[c].readyState = "CONNECTING"
  /\ conn[c].readyState = "OPEN"
  /\ client' = [client EXCEPT ![c].readyState = "OPEN"]
  /\ c2s' = [c2s EXCEPT ![c] = WireSend(@, "OPEN", <<Hello(c), GetSnapshot>>)]
  /\ UNCHANGED <<up, rooms, conn, sent, last, begun, s2c>>

\* begin(e): mousedown or touchstart at point pt
Begin(c, pt) ==
  LET p == client[c]
      current == [id |-> nanoid(c, p.ids + 1), userId |-> userId(c),
                  color |-> "#1f77b4", size |-> 4, tool |-> "brush"]
  IN /\ client' = [client EXCEPT ![c] =
                     beginLocalStroke([p EXCEPT !.drawing = TRUE, !.current = current,
                                                !.ids = @ + 1],
                                      current, pt)]
     /\ c2s' = [c2s EXCEPT ![c] = WireSend(@, p.readyState,
                  <<Merge([type |-> "op-begin", boardId |-> boardId], current),
                    [type |-> "op-points", boardId |-> boardId, id |-> current.id,
                     pts |-> <<pt>>]>>)]
     /\ UNCHANGED <<up, rooms, conn, sent, last, begun, s2c>>

\* move(e): mousemove or touchmove at point pt; late is now - lastSend > 16.
\* lastSend is 0 until the first send and performance.now() is past 16 by then
Move(c, pt, late) ==
  LET p == client[c]
      cursor == [type |-> "cursor", boardId |-> boardId, userId |-> userId(c),
                 username |-> "Guest", color |-> "#1f77b4", nx |-> "0.5", ny |-> "0.5"]
  IN /\ p.lastSend = 0 => late
     /\ IF ~p.drawing \/ p.current = Null
        THEN /\ client' = client
             /\ c2s' = [c2s EXCEPT ![c] = WireSend(@, p.readyState, <<cursor>>)]
        ELSE /\ client' = [client EXCEPT ![c] =
                             [pushLocalPoint(p, pt) EXCEPT
                                !.lastSend = IF late THEN 1 ELSE @,
                                !.moves = @ + 1]]
             /\ c2s' = [c2s EXCEPT ![c] = WireSend(@, p.readyState,
                          IF late
                          THEN <<cursor, [type |-> "op-points", boardId |-> boardId,
                                          id |-> p.current.id, pts |-> <<pt>>]>>
                          ELSE <<cursor>>)]
     /\ UNCHANGED <<up, rooms, conn, sent, last, begun, s2c>>

\* end(): mouseup or touchend while a stroke is in progress
End(c) ==
  LET p == client[c]
  IN /\ p.drawing /\ p.current # Null
     /\ client' = [client EXCEPT ![c].drawing = FALSE, ![c].current = Null]
     /\ c2s' = [c2s EXCEPT ![c] = WireSend(@, p.readyState,
                  <<[type |-> "op-end", boardId |-> boardId, id |-> p.current.id]>>)]
     /\ UNCHANGED <<up, rooms, conn, sent, last, begun, s2c>>

\* keydown of ctrl/meta + z, with or without shift
KeyDown(c, shiftKey) ==
  /\ c2s' = [c2s EXCEPT ![c] = WireSend(@, client[c].readyState,
               <<[type |-> IF shiftKey THEN "redo" ELSE "undo", boardId |-> boardId]>>)]
  /\ client' = [client EXCEPT ![c].keys = @ + 1]
  /\ UNCHANGED <<up, rooms, conn, sent, last, begun, s2c>>

\* the Wire's message listener, for the oldest message the server has sent
PageMessage(c) ==
  /\ client[c].readyState = "OPEN"
  /\ s2c[c] # <<>>
  /\ client' = [client EXCEPT ![c] = PageAfter(@, Head(s2c[c]))]
  /\ c2s' = [c2s EXCEPT ![c] = WireSend(@, client[c].readyState, PageSends(Head(s2c[c])))]
  /\ s2c' = [s2c EXCEPT ![c] = Tail(@)]
  /\ UNCHANGED <<up, rooms, conn, sent, last, begun>>

\* ------------------------------------------------------------- pages and server
\* Messages in flight, strokes a page begins, pointer moves of a page while it
\* draws, undo and redo keys pressed.
MaxInFlight == 3
MaxLocalStrokes == 1
MaxMoves == 2
MaxKeys == 1

\* (variant: what the handler sends overtakes what is already on its way)
Delivered_Prepend == [w \in WS |-> sent'[w] \o s2c[w]]

\* the messages the server's handler sent, on their way to the pages
Delivered == [w \in WS |-> s2c[w] \o sent'[w]]

\* the messages in a set of queues
InFlight(q) == Len(q["A"]) + Len(q["B"]) + Len(q["C"])

\* the step leaves at most MaxInFlight messages in flight
Flowing == InFlight(c2s') + InFlight(s2c') <= MaxInFlight

\* the server accepts the connection of a page's Wire
Accept ==
  /\ \E c \in Pages :
       /\ client[c].readyState = "CONNECTING"
       /\ Connection(c, boardId)
  /\ s2c' = Delivered
  /\ UNCHANGED <<client, c2s, undone, prior>>
  /\ Flowing

\* the server handles the oldest message a page has sent
Serve ==
  /\ \E c \in Pages :
       /\ c2s[c] # <<>>
       /\ Message(c, Head(c2s[c]))
       /\ c2s' = [c2s EXCEPT ![c] = Tail(@)]
  /\ s2c' = Delivered
  /\ Flowing
  /\ UNCHANGED <<client, undone, prior>>

Opened ==
  /\ \E c \in Pages : Open(c)
  /\ Flowing
  /\ UNCHANGED <<undone, prior>>

\* the user draws once the page is connected, and moves the pointer while drawing
Draws ==
  /\ \/ \E c \in Pages, pt \in {"p1"} :
          /\ client[c].readyState = "OPEN"
          /\ client[c].ids < MaxLocalStrokes
          /\ Begin(c, pt)
     \/ \E c \in Pages, pt \in {"p1"}, late \in BOOLEAN :
          /\ client[c].drawing
          /\ client["A"].moves + client["B"].moves < MaxMoves
          /\ Move(c, pt, late)
     \/ \E c \in Pages : End(c)
  /\ Flowing
  /\ UNCHANGED <<undone, prior>>

Keys ==
  /\ \E c \in Pages, shiftKey \in BOOLEAN :
       /\ client[c].readyState = "OPEN"
       /\ client["A"].keys + client["B"].keys < MaxKeys
       /\ KeyDown(c, shiftKey)
  /\ Flowing
  /\ UNCHANGED <<undone, prior>>

Hears ==
  /\ \E c \in Pages : PageMessage(c)
  /\ Flowing
  /\ UNCHANGED <<undone, prior>>

\* Two pages open the board: the connections, hello and get-snapshot.
NextJoin == Accept \/ Serve \/ Opened \/ Hears

SpecJoin == Init /\ [][NextJoin]_vars

\* Both pages have opened the board, A before B, and have handled every message
\* of that: a state SpecJoin reaches.
Joined ==
  /\ up = TRUE
  /\ rooms = [r \in {boardId} |->
               [strokes |-> <<>>, clients |-> Pages,
                users |-> UsersSet(UsersSet(<<>>, Hello("A")), Hello("B"))]]
  /\ conn = [w \in WS |-> IF w \in Pages
                           THEN [readyState |-> "OPEN", roomId |-> boardId]
                           ELSE [readyState |-> "NONE", roomId |-> Undefined]]
  /\ sent = [NoneSent EXCEPT !["B"] = <<[type |-> "snapshot", strokes |-> <<>>]>>]
  /\ last = [kind |-> "message", ws |-> "B", roomId |-> boardId,
             m |-> GetSnapshot, pre |-> <<>>, raw |-> Stringify(GetSnapshot)]
  /\ begun = [r \in Rooms |-> <<>>]
  /\ undone = [r \in Rooms |-> <<>>]
  /\ prior = NoEvent
  /\ client = [c \in Pages |-> [NewPage EXCEPT !.readyState = "OPEN"]]
  /\ c2s = [w \in WS |-> <<>>]
  /\ s2c = [w \in WS |-> <<>>]

\* Two pages on one board: every interleaving of drawing, undo and redo with
\* the server's handling and the delivery of the messages.
NextSync == Serve \/ Draws \/ Keys \/ Hears

SpecSync == Joined /\ [][NextSync]_vars

\* ------------------------------------------------------------- properties
\* the last event was a message of type t, handled without an exception
LastIs(t) == last.kind = "message" /\ Get(last.m, "type") = t /\ up

\* the log of the room of the last event, as it is now
Now == rooms[last.roomId].strokes

\* what identifies a record: every field but the two the server mutates
Identity(o) == [f \in DOMAIN o \ {"points", "tombstone"} |-> o[f]]

Flags(strokes) == [i \in 1..Len(strokes) |-> Tombstoned(strokes[i])]

Visible(strokes) == {i \in 1..Len(strokes) : ~Tombstoned(strokes[i])}

Hidden(strokes) == {i \in 1..Len(strokes) : Tombstoned(strokes[i])}

Max(S) == CHOOSE i \in S : \A j \in S : i >= j

Min(S) == CHOOSE i \in S : \A j \in S : i <= j

\* C1: in every room the stroke log holds exactly one record per op-begin
\* processed, in the order they were processed, whatever messages were
\* interleaved: no record is removed and no two records change places.
C1_OneRecordPerBegin ==
  \A r \in Rooms :
    LET log == IF r \in DOMAIN rooms THEN rooms[r].strokes ELSE <<>>
    IN /\ Len(log) = Len(begun[r])
       /\ \A i \in 1..Len(log) : Identity(log[i]) = Identity(begun[r][i])

\* a log of MaxStrokes records of both ids, with points, after an undo and a redo
\* took effect and with the other session sending last
C1_Witness ==
  /\ LastIs("redo") /\ last.ws = "B"
  /\ Len(Now) = MaxStrokes
  /\ {Get(Now[i], "id") : i \in 1..Len(Now)} = Ids
  /\ Get(Now[1], "id") = "y" /\ Get(Now[2], "id") = "x"
  /\ PointCount(Now) > 0
  /\ Toggled(last.pre, Now) # {}
  /\ Hidden(Now) # {}

\* C2: an undo processed in a room with a visible stroke tombstones exactly the
\* newest visible stroke of the log, whoever drew it, and changes no other flag.
C2_UndoNewestVisible ==
  (LastIs("undo") /\ Visible(last.pre) # {}) =>
    /\ Len(Now) = Len(last.pre)
    /\ Toggled(last.pre, Now) = {Max(Visible(last.pre))}
    /\ Tombstoned(Now[Max(Visible(last.pre))])

\* the stroke undone has tombstoned strokes after it and a visible stroke of
\* another user before it
C2_Witness ==
  /\ LastIs("undo")
  /\ \E k \in Visible(last.pre) :
       /\ k < Len(last.pre)
       /\ \A j \in (k + 1)..Len(last.pre) : Tombstoned(last.pre[j])
       /\ \E j \in Visible(last.pre) :
            j < k /\ Get(last.pre[j], "userId") # Get(last.pre[k], "userId")
       /\ Tombstoned(Now[k])

UndoThenRedo ==
  /\ LastIs("redo")
  /\ prior.kind = "message" /\ Get(prior.m, "type") = "undo"
  /\ prior.roomId = last.roomId

C5_RedoRestoresLastUndone ==
  [][(LastIs("redo")' /\ undone[last'.roomId] # <<>>)
       => Toggled(rooms[last'.roomId].strokes, rooms'[last'.roomId].strokes)
            = {undone[last'.roomId][Len(undone[last'.roomId])]}]_vars

\* C8: an undo with no visible stroke (an empty log included) and a redo with no
\* tombstoned stroke leave the log as it was, and the handler does not throw.
C8_NothingToUndoOrRedo ==
  /\ (last.kind = "message" /\ Get(last.m, "type") = "undo" /\ Visible(last.pre) = {})
       => (up /\ Now = last.pre)
  /\ (last.kind = "message" /\ Get(last.m, "type") = "redo" /\ Hidden(last.pre) = {})
       => (up /\ Now = last.pre)

\* an undo arrived when every stroke of a log of two or more was tombstoned
C8_Witness ==
  /\ LastIs("undo")
  /\ Len(last.pre) >= 2
  /\ Visible(last.pre) = {}
  /\ Now = last.pre

\* C9: an op-points whose id matches no stroke of the log leaves the log as it
\* was: no stroke is created, no points and no flag change.
C9_PointsForUnknownId ==
  (last.kind = "message" /\ Get(last.m, "type") = "op-points"
     /\ \A i \in 1..Len(last.pre) : Get(last.pre[i], "id") # Get(last.m, "id"))
    => (up /\ Now = last.pre)

\* the log held strokes, none of them with the id of the message
C9_Witness ==
  /\ LastIs("op-points")
  /\ "pts" \in DOMAIN last.m
  /\ last.pre # <<>>
  /\ \A i \in 1..Len(last.pre) : Get(last.pre[i], "id") # Get(last.m, "id")
  /\ Now = last.pre

\* the strokes of a log that carry the id of message m
Matches(strokes, m) == {i \in 1..Len(strokes) : Get(strokes[i], "id") = Get(m, "id")}

\* the log is `before` with pts appended to the points of stroke k and nothing else changed
AppendedTo(before, after, k, pts) ==
  /\ Len(after) = Len(before)
  /\ after[k] = Spread(before[k], "points", before[k].points \o pts)
  /\ \A i \in 1..Len(before) : i # k => after[i] = before[i]

\* C10 (as claimed): with several strokes of the same id in the log, op-points
\* appends its points to the most recently appended of them.
C10_PointsToNewestDuplicate ==
  (LastIs("op-points") /\ Cardinality(Matches(last.pre, last.m)) >= 2)
    => AppendedTo(last.pre, Now, Max(Matches(last.pre, last.m)), last.m.pts)

\* C10 (amended): with several strokes of the same id in the log, op-points
\* appends its points to the first appended of them and leaves the later ones
\* (and every other stroke) unchanged.
C10_PointsToOldestDuplicate ==
  (LastIs("op-points") /\ Cardinality(Matches(last.pre, last.m)) >= 2)
    => AppendedTo(last.pre, Now, Min(Matches(last.pre, last.m)), last.m.pts)

\* two strokes share the id, the older one already has points, and it grew
C10_Witness ==
  /\ LastIs("op-points")
  /\ Cardinality(Matches(last.pre, last.m)) >= 2
  /\ last.pre[Min(Matches(last.pre, last.m))].points # <<>>
  /\ Len(Now[Min(Matches(last.pre, last.m))].points)
       > Len(last.pre[Min(Matches(last.pre, last.m))].points)

\* the message types whose handler broadcasts with the sender as `except`, and the
\* type of the message each sends
Forwarded ==
  [t \in {"op-begin", "op-points", "op-end", "cursor"} |->
     CASE t = "op-begin" -> "begin" [] t = "op-points" -> "point"
       [] t = "op-end" -> "end" [] OTHER -> "cursor"]

\* C6: a broadcast in room r with exclude = S reaches exactly the sessions that are
\* in r's session set, open, and not S, each once: not S, no session that is not
\* open, no session of another room, and every other open session of r.
C6_BroadcastExclusion ==
  (last.kind = "message" /\ up /\ Get(last.m, "type") \in DOMAIN Forwarded) =>
    \A w \in WS :
      IF /\ w \in rooms[last.roomId].clients
         /\ conn[w].readyState = "OPEN"
         /\ w # last.ws
      THEN /\ Len(sent[w]) = 1
           /\ sent[w][1].type = Forwarded[last.m.type]
      ELSE sent[w] = <<>>

\* A sent op-begin to a room with B half-closed and C open, and C got begin
C6_Witness ==
  /\ LastIs("op-begin") /\ last.ws = "A"
  /\ rooms[last.roomId].clients = {"A", "B", "C"}
  /\ conn["B"].readyState = "CLOSING"
  /\ conn["C"].readyState = "OPEN"
  /\ sent["A"] = <<>> /\ sent["B"] = <<>>
  /\ Len(sent["C"]) = 1 /\ sent["C"][1].type = "begin"

\* what a stroke list shows: the ids in order, with the points and the
\* tombstone flag of each stroke
View(strokes) ==
  [i \in 1..Len(strokes) |->
     [id |-> Get(strokes[i], "id"), points |-> strokes[i].points,
      tombstone |-> Tombstoned(strokes[i])]]

\* every message sent has been handled and no page is in the middle of a stroke
Quiescent ==
  /\ InFlight(c2s) + InFlight(s2c) = 0
  /\ \A c \in Pages : ~client[c].drawing

\* the pages connected to a board
Connected(roomId) ==
  {c \in Pages : /\ client[c].readyState = "OPEN"
                 /\ conn[c].readyState = "OPEN"
                 /\ conn[c].roomId = roomId}

\* C7: Convergence: once every in-flight message has been delivered and no
\* participant is in the middle of a stroke, the stroke list of every connected
\* page of a board has the same stroke ids in the same order, with the same
\* points and the same tombstone flags, as the board's stroke log on the server.
C7_Convergence ==
  Quiescent =>
    \A c \in Connected(boardId) : View(client[c].ops) = View(rooms[boardId].strokes)

\* the sessions of a room that are open
OpenMembers(roomId) ==
  {w \in WS : w \in rooms[roomId].clients /\ conn[w].readyState = "OPEN"}

\* C11: every undo and every redo message processed in a room, also one that
\* changes no tombstone, makes the server send exactly one undo (resp. redo)
\* message without payload to every open session of the room, the sender included,
\* and to no other session.
C11_UndoRedoToAll ==
  (last.kind = "message" /\ Get(last.m, "type") \in {"undo", "redo"}) =>
    /\ up
    /\ \A w \in WS :
         sent[w] = IF w \in OpenMembers(last.roomId)
                   THEN <<[type |-> last.m.type]>> ELSE <<>>

\* A's undo found nothing to tombstone; A and the open C got the undo message,
\* the half-closed B got none
C11_Witness ==
  /\ LastIs("undo") /\ last.ws = "A"
  /\ last.pre # <<>> /\ Now = last.pre
  /\ rooms[last.roomId].clients = {"A", "B", "C"}
  /\ conn["B"].readyState = "CLOSING"
  /\ sent["A"] = <<[type |-> "undo"]>>
  /\ sent["B"] = <<>>
  /\ sent["C"] = <<[type |-> "undo"]>>

\* C12: an op-begin appends exactly one stroke, with empty points and the id of
\* the message, at the end of the sender's room log, changes no stroke that was
\* there, and makes the server send one begin message carrying that stroke to
\* every open session of the room except the sender, and nothing to anyone else.
C12_BeginAppendsAndForwards ==
  (last.kind = "message" /\ Get(last.m, "type") = "op-begin") =>
    /\ up
    /\ Len(Now) = Len(last.pre) + 1
    /\ SubSeq(Now, 1, Len(last.pre)) = last.pre
    /\ Now[Len(Now)].points = <<>>
    /\ Identity(Now[Len(Now)]) = Identity(last.m)
    /\ \A w \in WS :
         sent[w] = IF w \in OpenMembers(last.roomId) /\ w # last.ws
                   THEN <<[type |-> "begin", stroke |-> Now[Len(Now)]]>>
                   ELSE <<>>

\* B began a stroke with an id the log already held, after strokes with points;
\* A got the begin message
C12_Witness ==
  /\ LastIs("op-begin") /\ last.ws = "B"
  /\ \E i \in 1..Len(last.pre) :
       /\ last.pre[i].points # <<>>
       /\ Get(last.pre[i], "id") = Get(last.m, "id")
  /\ Len(sent["A"]) = 1 /\ sent["A"][1].type = "begin"
  /\ sent["B"] = <<>>

\* s is a prefix of t
IsPrefix(s, t) == Len(s) <= Len(t) /\ SubSeq(t, 1, Len(s)) = s

\* C13: an op-points{id, pts} for an id present in the log appends pts, in order,
\* to the end of the points of a stroke with that id and changes nothing else,
\* and makes the server send one point{id, pts} message to every open session of
\* the room except the sender; and whatever the message, the points of every
\* stroke before it are a prefix of its points after it.
C13_PointsAppendOnly ==
  /\ (last.kind = "message" /\ Get(last.m, "type") = "op-points"
        /\ "pts" \in DOMAIN last.m /\ Matches(last.pre, last.m) # {}) =>
       /\ up
       /\ \E k \in Matches(last.pre, last.m) :
            AppendedTo(last.pre, Now, k, last.m.pts)
       /\ \A w \in WS :
            sent[w] = IF w \in OpenMembers(last.roomId) /\ w # last.ws
                      THEN <<[type |-> "point", id |-> last.m.id, pts |-> last.m.pts]>>
                      ELSE <<>>
  /\ last.kind = "message" =>
       /\ Len(last.pre) <= Len(Now)
       /\ \A i \in 1..Len(last.pre) : IsPrefix(last.pre[i].points, Now[i].points)

\* a stroke that had points got one more at its end, next to another stroke
\* that stayed as it was, and the other session got the point message
C13_Witness ==
  /\ LastIs("op-points") /\ last.ws = "A"
  /\ Len(last.pre) >= 2
  /\ \E k \in Matches(last.pre, last.m) :
       /\ last.pre[k].points # <<>>
       /\ Now[k].points = last.pre[k].points \o last.m.pts
       /\ Len(Now[k].points) > Len(last.pre[k].points)
  /\ Len(sent["B"]) = 1 /\ sent["B"][1].type = "point"
  /\ sent["A"] = <<>>

\* C14: an op-points message whose id matches no stroke of the log is dropped:
\* no session of the room is sent any message because of it.
C14_UnknownIdSendsNothing ==
  (last.kind = "message" /\ Get(last.m, "type") = "op-points"
     /\ Matches(last.pre, last.m) = {})
    => \A w \in WS : sent[w] = <<>>

\* C15: a get-snapshot message changes no room state (logs, session sets, user
\* directories, connections) and is answered with exactly one snapshot message,
\* sent to the requesting session and to no other, that carries the room's
\* stroke sequence as it is when the request is processed: every stroke, in log
\* order, tombstoned ones included.
C15_SnapshotToRequesterOnly ==
  [][(last'.kind = "message" /\ Get(last'.m, "type") = "get-snapshot") =>
       /\ up'
       /\ rooms' = rooms
       /\ conn' = conn
       /\ sent' = [w \in WS |->
                     IF w = last'.ws
                     THEN <<[type |-> "snapshot",
                             strokes |-> rooms[last'.roomId].strokes]>>
                     ELSE <<>>]]_vars

\* B asked for the snapshot of a log with a tombstoned and a visible stroke and
\* got all of it; the open A got nothing
C15_Witness ==
  /\ LastIs("get-snapshot") /\ last.ws = "B"
  /\ Hidden(Now) # {} /\ Visible(Now) # {}
  /\ \E i \in 1..Len(Now) : Now[i].points # <<>>
  /\ sent["B"] = <<[type |-> "snapshot", strokes |-> Now]>>
  /\ conn["A"].readyState = "OPEN" /\ sent["A"] = <<>>

\* the entries of a user directory or of a users list
Directory(users) ==
  {<<users[i].userId, users[i].username, users[i].color>> : i \in 1..Len(users)}

UserIds(users) == {users[i].userId : i \in 1..Len(users)}

\* C16: a hello{userId, username, color} sets or overwrites the entry of that
\* userId in the room's user directory and no other entry, leaves the stroke log
\* and the session set as they were, and makes the server send to every open
\* session of the room, the sender included, one users list with exactly one
\* entry per userId of the directory, each with its latest username and color;
\* no other message changes a directory, so these are the userIds that have sent
\* hello in the room.
C16_HelloSetsOneEntry ==
  [][IF last'.kind = "message" /\ Get(last'.m, "type") = "hello"
     THEN LET r == last'.roomId
              m == last'.m
              e == <<Get(m, "userId"), Get(m, "username"), Get(m, "color")>>
          IN /\ up'
             /\ rooms'[r].strokes = rooms[r].strokes
             /\ rooms'[r].clients = rooms[r].clients
             /\ Directory(rooms'[r].users) =
                  {d \in Directory(rooms[r].users) : d[1] # e[1]} \cup {e}
             /\ Len(rooms'[r].users) = Cardinality(UserIds(rooms'[r].users))
             /\ \A w \in WS :
                  IF w \in rooms[r].clients /\ conn[w].readyState = "OPEN"
                  THEN /\ Len(sent'[w]) = 1
                       /\ DOMAIN sent'[w][1] = {"type", "users"}
                       /\ sent'[w][1].type = "users"
                       /\ Directory(sent'[w][1].users) = Directory(rooms'[r].users)
                       /\ Len(sent'[w][1].users) = Len(rooms'[r].users)
                  ELSE sent'[w] = <<>>
     ELSE \A r \in DOMAIN rooms : rooms'[r].users = rooms[r].users]_vars

\* u1 said hello again, as bob, after u2 had joined the directory of a room
\* with a stroke; the sender A and the open C got the list of two, the
\* half-closed B got nothing
C16_Witness ==
  /\ LastIs("hello") /\ last.ws = "A" /\ last.m.username = "bob"
  /\ Now # <<>>
  /\ rooms[last.roomId].users =
       <<[userId |-> "u1", username |-> "bob", color |-> "#1f77b4"],
         [userId |-> "u2", username |-> "ann", color |-> "#1f77b4"]>>
  /\ rooms[last.roomId].clients = {"A", "B", "C"}
  /\ conn["B"].readyState = "CLOSING" /\ sent["B"] = <<>>
  /\ Len(sent["A"]) = 1 /\ Len(sent["A"][1].users) = 2
  /\ sent["C"] = sent["A"]

C18_RoomIsolation ==
  [][LET r == last'.roomId
     IN last'.kind \in {"connection", "close", "message"} =>
          /\ \A q \in DOMAIN rooms \ {r} : q \in DOMAIN rooms' /\ rooms'[q] = rooms[q]
          /\ DOMAIN rooms' \subseteq DOMAIN rooms \cup {r}
          /\ \A w \in WS \ {last'.ws} : conn'[w] = conn[w]
          /\ \A w \in WS : sent'[w] # <<>> => w \in rooms'[r].clients
          /\ (\E q \in DOMAIN rooms \ {r} : rooms[q].clients # {}) => up']_vars

\* C19: no inbound payload is fatal: whatever payload a session sends, the
\* handler completes without raising an error and the server keeps running.
C19_NoPayloadIsFatal == last.kind = "message" => up

\* the case labels of the switch statement
KnownTypes ==
  {"get-snapshot", "op-begin", "op-points", "op-end", "undo", "redo", "cursor", "hello"}

\* a payload that fails to parse, or a parsed message whose type is unrecognised or absent
Dropped(raw) ==
  \/ "text" \in DOMAIN raw
  \/ "json" \in DOMAIN raw /\ Get(raw.json, "type") \notin KnownTypes

\* C20: a payload that fails to parse as JSON, and a parsed message whose type is
\* unrecognised or absent, is dropped silently: the handler returns, every room's
\* log, session set and user directory and every session are as before, no
\* message is sent to anyone, and the sender is still in its room's session set.
C20_DroppedSilently ==
  [][(last'.kind = "message" /\ Dropped(last'.raw)) =>
       /\ up'
       /\ rooms' = rooms
       /\ conn' = conn
       /\ sent' = NoneSent
       /\ last'.ws \in rooms'[last'.roomId].clients]_vars

\* A sent text that is not JSON to a room with a stroke, a directory entry and
\* a second open session: nothing was sent and A is still a member
C20_Witness ==
  /\ last.kind = "message" /\ "text" \in DOMAIN last.raw /\ last.ws = "A"
  /\ up
  /\ rooms[last.roomId].strokes # <<>> /\ rooms[last.roomId].users # <<>>
  /\ OpenMembers(last.roomId) = {"A", "B"}
  /\ sent = NoneSent

\* C21: unknown fields of an op-begin are ignored: the stroke it appends starts
\* with empty points and not tombstoned, whatever extra fields the payload carries.
C21_BeginIgnoresExtraFields ==
  (LastIs("op-begin") /\ Len(Now) = Len(last.pre) + 1) =>
    /\ Now[Len(Now)].points = <<>>
    /\ ~Tombstoned(Now[Len(Now)])

\* The end of a stroke: two sessions of one room begin a stroke, send points for
\* it before and after its op-end, and undo; the event before the last one is
\* kept in `prior`.
EndPayloads ==
  Json({BeginMsg("x", "u1"), PointsMsg("x", <<"p1">>), PointsMsg("x", <<"p1", "p2">>),
        [type |-> "op-end", id |-> "x"], [type |-> "undo"]})

ReceiveEnd ==
  /\ \E w \in {"A", "B"}, raw \in EndPayloads : Receive(w, raw)
  /\ prior' = last
  /\ UNCHANGED <<undone, client, c2s, s2c>>

NextEnd == JoinUndo \/ ReceiveEnd

SpecEnd == Init /\ [][NextEnd]_vars

\* One page draws and the other watches: A draws strokes, B moves its pointer
\* over the canvas, the server forwards, both pages hear.
Sketches ==
  /\ \/ \E pt \in {"p1"} :
          /\ client["A"].ids < MaxLocalStrokes
          /\ Begin("A", pt)
     \/ \E pt \in Points, late \in BOOLEAN :
          /\ client["A"].drawing
          /\ client["A"].moves < MaxMoves
          /\ Move("A", pt, late)
     \/ End("A")
  /\ Flowing
  /\ UNCHANGED <<undone, prior>>

Hovers ==
  /\ \E pt \in {"p1"} : Move("B", pt, TRUE)
  /\ Flowing
  /\ UNCHANGED <<undone, prior>>

NextRelay == Serve \/ Sketches \/ Hovers \/ Hears

SpecRelay == Joined /\ [][NextRelay]_vars

\* Undo and redo between strokes: A draws strokes of one point (pointer down and
\* up), either page presses the undo and redo keys, the server handles and both
\* pages hear.
Taps ==
  /\ \/ \E pt \in {"p1"} :
          /\ client["A"].ids < MaxLocalStrokes
          /\ Begin("A", pt)
     \/ End("A")
  /\ Flowing
  /\ UNCHANGED <<undone, prior>>

NextResync == Serve \/ Taps \/ Keys \/ Hears

SpecResync == Joined /\ [][NextResync]_vars

\* (variant: a socket that closes schedules two reconnects, as with a second
\* listener on "error")
OnClose_Twice(p) == [p EXCEPT !.timers = @ + 2]

\* the close listener of a socket: setTimeout(() => this.connect(), 800)
OnClose(p) == [p EXCEPT !.timers = @ + 1]

\* Wire.connect(): this.ws = new WebSocket(this.url); a socket that this.ws held
\* and that is not closed stays behind
connect(p) ==
  [p EXCEPT !.readyState = "CONNECTING",
            !.stale = IF p.readyState = "CLOSED" THEN @ ELSE @ + 1]

\* the connection of a page is lost: the server's close listener runs, the
\* page's socket is closed, and what was on its way in either direction is gone
Drop(c) ==
  /\ client[c].readyState = "OPEN"
  /\ Close(c)
  /\ client' = [client EXCEPT ![c] = OnClose([@ EXCEPT !.readyState = "CLOSED"])]
  /\ c2s' = [c2s EXCEPT ![c] = <<>>]
  /\ s2c' = [Delivered EXCEPT ![c] = <<>>]

\* a connection attempt fails before the server has accepted it: the socket
\* closes without having been open
Fail(c) ==
  /\ client[c].readyState = "CONNECTING"
  /\ conn[c].readyState = "NONE"
  /\ client' = [client EXCEPT ![c] = OnClose([@ EXCEPT !.readyState = "CLOSED"])]
  /\ UNCHANGED <<up, rooms, conn, sent, last, begun, c2s, s2c>>

\* a reconnect timer fires: this.connect()
Reconnect(c) ==
  /\ client[c].timers > 0
  /\ client' = [client EXCEPT ![c] = connect([@ EXCEPT !.timers = @ - 1])]
  /\ UNCHANGED <<up, rooms, conn, sent, last, begun, c2s, s2c>>

\* Connections that come and go: the pages connect, A draws strokes of one point
\* whatever the state of its socket, connections are lost and made again.
Scribbles ==
  /\ \/ \E pt \in {"p1"} :
          /\ client["A"].ids < MaxLocalStrokes
          /\ Begin("A", pt)
     \/ End("A")
  /\ Flowing
  /\ UNCHANGED <<undone, prior>>

Drops ==
  /\ \E c \in Pages : Drop(c)
  /\ Flowing
  /\ UNCHANGED <<undone, prior>>

Fails ==
  /\ \E c \in Pages : Fail(c)
  /\ UNCHANGED <<undone, prior>>

\* the reconnect timer of page c fires
Retry(c) ==
  /\ Reconnect(c)
  /\ UNCHANGED <<undone, prior>>

Reconnects == \E c \in Pages : Retry(c)

NextReconnect ==
  Accept \/ Opened \/ Serve \/ Hears \/ Scribbles \/ Drops \/ Fails \/ Reconnects

SpecReconnect == Init /\ [][NextReconnect]_vars

\* The Wire alone: connections are made, fail, open, are lost and made again;
\* the event loop runs every reconnect timer that is due.
NextWire == Accept \/ Opened \/ Serve \/ Hears \/ Drops \/ Fails \/ Reconnects

\* (a Retry step always changes client: it takes one from timers)
SpecWire ==
  Init /\ [][NextWire]_vars /\ \A c \in Pages : WF_client(Retry(c))

\* the messages of a queue to a page that the server forwarded from another page
Relayed(q) ==
  SelectSeq(q, LAMBDA m : Get(m, "type") \in {"begin", "point", "end", "cursor"})

\* what the server will forward to page R for the messages of page S it has not
\* handled yet, in the order S sent them
RECURSIVE ToRelay(_, _, _)
ToRelay(S, R, q) ==
  IF q = <<>> THEN <<>>
  ELSE (IF Get(Parse(Head(q)), "type") \in DOMAIN Forwarded
        THEN SentBy(rooms, conn, S, Parse(Head(q)))[R] ELSE <<>>)
       \o ToRelay(S, R, Tail(q))

\* everything page R has still to hear of what page S has sent
Pipeline(S, R) == Relayed(s2c[R]) \o ToRelay(S, R, c2s[S])

\* no point or end of a stroke comes before the stroke's begin, and no point of
\* a stroke after its end
StrokeOrdered(q) ==
  \A i, j \in 1..Len(q) :
    (i < j /\ Get(q[j], "type") = "begin") =>
       ~(q[i].type \in {"point", "end"} /\ Get(q[i], "id") = Get(q[j].stroke, "id"))

EndsLast(q) ==
  \A i, j \in 1..Len(q) :
    (i < j /\ q[i].type = "end") =>
       ~(q[j].type \in {"begin", "point"}
         /\ Get(q[i], "id") = (IF q[j].type = "begin" THEN Get(q[j].stroke, "id")
                               ELSE Get(q[j], "id")))

\* C22: per-connection order is preserved: between two pages of a board that
\* stay open, what the receiver has still to hear of the sender's messages only
\* ever loses its oldest message (the receiver handled it) or grows at its end
\* (the sender sent more); and in it a stroke's begin comes before its points
\* and its end after them.
C22_OrderPreserved ==
  /\ [](\A S, R \in Pages :
          S # R => StrokeOrdered(Pipeline(S, R)) /\ EndsLast(Pipeline(S, R)))
  /\ [][\A S, R \in Pages :
          S # R =>
            LET old == Pipeline(S, R)
                new == Pipeline(S, R)'
            IN \/ IsPrefix(old, new)
               \/ old # <<>> /\ new = Tail(old)]_vars

\* B has still to hear the begin, a point and the end of A's stroke x, the
\* begin already sent by the server, the end not yet handled by it
C22_Witness ==
  /\ Len(Pipeline("A", "B")) >= 3
  /\ Pipeline("A", "B")[1].type = "begin"
  /\ \E i \in 2..Len(Pipeline("A", "B")) : Pipeline("A", "B")[i].type = "end"
  /\ s2c["B"] # <<>> /\ s2c["B"][1].type = "begin"
  /\ c2s["A"] # <<>>

\* C23: op-end and cursor change no room state (no stroke log, tombstone, session
\* set or user directory of any room, and no session) and are only forwarded: the
\* server sends end{id}, resp. cursor{userId, username, color, nx, ny}, once to
\* every open session of the room except the sender, and nothing to anyone else.
C23_EndAndCursorOnlyForwarded ==
  [][(last'.kind = "message" /\ Get(last'.m, "type") \in {"op-end", "cursor"}) =>
       LET m == last'.m
           out == IF m.type = "op-end"
                  THEN [type |-> "end", id |-> m.id]
                  ELSE [type |-> "cursor", userId |-> m.userId, username |-> m.username,
                        color |-> m.color, nx |-> m.nx, ny |-> m.ny]
       IN /\ up'
          /\ rooms' = rooms
          /\ conn' = conn
          /\ \A w \in WS :
               sent'[w] = IF w \in OpenMembers(last'.roomId) /\ w # last'.ws
                          THEN <<out>> ELSE <<>>]_vars

\* A sent op-end for a stroke in the log of a room with B half-closed and C
\* open: C got end{id}, A and B nothing
C23_Witness ==
  /\ LastIs("op-end") /\ last.ws = "A"
  /\ FindById(Now, last.m.id) # 0
  /\ "boardId" \in DOMAIN last.m
  /\ rooms[last.roomId].clients = {"A", "B", "C"}
  /\ conn["B"].readyState = "CLOSING"
  /\ sent["A"] = <<>> /\ sent["B"] = <<>>
  /\ sent["C"] = <<[type |-> "end", id |-> last.m.id]>>

\* the rooms whose session set holds a connection
MemberOf(w) == {r \in DOMAIN rooms : w \in rooms[r].clients}

\* C24: at every moment a connection is in the session set of at most one room:
\* the connection event puts it into the room named by its room parameter
\* ("default" when the parameter is missing or empty), it stays a member of that
\* room and of no other until its close, and after its close it is a member of
\* no room.
C24_MemberOfOneRoom ==
  /\ [](/\ \A w \in WS :
             /\ Cardinality(MemberOf(w)) <= 1
             /\ conn[w].readyState = "NONE" <=> MemberOf(w) = {}
        /\ last.kind = "connection" =>
             MemberOf(last.ws) = {IF last.param \in {Undefined, ""}
                                  THEN "default" ELSE last.param}
        /\ last.kind = "close" => MemberOf(last.ws) = {})
  /\ [][\A w \in WS :
          (MemberOf(w) # {} /\ MemberOf(w)' # {}) => MemberOf(w)' = MemberOf(w)]_vars

\* C, connected without a room parameter, is half-closed and still a member of
\* the default room only, while A and B are in r1 and strokes are in both logs
C24_Witness ==
  /\ conn["C"].readyState = "CLOSING"
  /\ MemberOf("C") = {"default"}
  /\ MemberOf("A") = {"r1"} /\ MemberOf("B") = {"r1"}
  /\ rooms["r1"].strokes # <<>> /\ rooms["default"].strokes # <<>>
  /\ last.kind = "message" /\ last.ws = "A"

\* C25: a room is created empty on the first reference to its id and is never
\* deleted or reset: a connection event creates at most its own room, with
\* nothing in it but the new session, a room that exists stays, a join or a
\* leave changes only its session set, its log and its directory never get
\* shorter, also when its last session leaves, and get-snapshot is answered
\* with the whole log of the room as it is then.
C25_RoomsPersist ==
  /\ [](LastIs("get-snapshot") =>
          /\ Now = last.pre
          /\ sent[last.ws] = <<[type |-> "snapshot", strokes |-> Now]>>)
  /\ [][/\ \A r \in DOMAIN rooms :
             /\ r \in DOMAIN rooms'
             /\ Len(rooms'[r].strokes) >= Len(rooms[r].strokes)
             /\ \A i \in 1..Len(rooms[r].strokes) :
                  Identity(rooms'[r].strokes[i]) = Identity(rooms[r].strokes[i])
             /\ UserIds(rooms[r].users) \subseteq UserIds(rooms'[r].users)
             /\ last'.kind \in {"connection", "close"} =>
                  /\ rooms'[r].strokes = rooms[r].strokes
                  /\ rooms'[r].users = rooms[r].users
        /\ \A r \in DOMAIN rooms' \ DOMAIN rooms :
             /\ last'.kind = "connection" /\ last'.roomId = r
             /\ rooms'[r] = [strokes |-> <<>>, clients |-> {last'.ws}, users |-> <<>>]]_vars

\* the last session of r1 has left: nobody is in the room, and its log, with a
\* tombstoned stroke, and its directory are still there
C25_Witness ==
  /\ last.kind = "close" /\ last.roomId = "r1"
  /\ rooms["r1"].clients = {}
  /\ rooms["r1"].strokes # <<>> /\ Hidden(rooms["r1"].strokes) # {}
  /\ rooms["r1"].users # <<>>

\* C26: op-end is not a state transition of the record: it leaves the log as it
\* is, and an op-points for id X processed right after an op-end for X appends
\* its points to the stroke and is forwarded to the other open sessions exactly
\* as if the log were the one before the op-end.
C26_PointsAfterEnd ==
  /\ LastIs("op-end") => Now = last.pre
  /\ (/\ last.kind = "message" /\ Get(last.m, "type") = "op-points"
      /\ prior.kind = "message" /\ Get(prior.m, "type") = "op-end"
      /\ Get(prior.m, "id") = Get(last.m, "id")
      /\ Matches(prior.pre, last.m) # {}) =>
       /\ up
       /\ AppendedTo(prior.pre, Now, Min(Matches(prior.pre, last.m)), last.m.pts)
       /\ \A w \in WS :
            sent[w] = IF w \in OpenMembers(last.roomId) /\ w # last.ws
                      THEN <<[type |-> "point", id |-> last.m.id, pts |-> last.m.pts]>>
                      ELSE <<>>

\* stroke x had a point when A ended it; the op-points that B sent next gave
\* it one more, and A was sent the point message
C26_Witness ==
  /\ LastIs("op-points") /\ last.ws = "B"
  /\ prior.kind = "message" /\ Get(prior.m, "type") = "op-end" /\ prior.ws = "A"
  /\ Get(prior.m, "id") = last.m.id
  /\ Matches(prior.pre, last.m) # {}
  /\ prior.pre[Min(Matches(prior.pre, last.m))].points = <<"p1">>
  /\ Now[Min(Matches(prior.pre, last.m))].points = <<"p1", "p1">>
  /\ Len(sent["A"]) = 1 /\ sent["A"][1].type = "point"

\* the page whose Wire listener runs in this step, and the message it handles
Hearing(c) ==
  /\ s2c[c] # <<>>
  /\ s2c'[c] = Tail(s2c[c])
  /\ client[c].readyState = "OPEN"

\* C27: push-then-pull resync: a page that hears undo or redo sends get-snapshot
\* next on its connection; the server answers a get-snapshot with the log of the
\* room as it is when it handles the request, which is after it handled whatever
\* the page had heard of before; and a page that hears a snapshot has, right
\* after, a stroke list with the ids, order, points and tombstone flags of the
\* snapshot's strokes.
C27_PushThenPull ==
  [][/\ \A c \in Pages :
          Hearing(c) =>
            LET m == Head(s2c[c])
            IN /\ m.type \in {"undo", "redo"} =>
                    c2s'[c] = Append(c2s[c], [json |-> [type |-> "get-snapshot",
                                                        boardId |-> boardId]])
               /\ m.type = "snapshot" => View(client'[c].ops) = View(m.strokes)
     /\ (last' # last /\ last'.kind = "message" /\ Get(last'.m, "type") = "get-snapshot") =>
          /\ rooms' = rooms
          /\ s2c'[last'.ws] =
               Append(s2c[last'.ws],
                      [type |-> "snapshot", strokes |-> rooms[last'.roomId].strokes])]_vars

\* B has heard of the undo of A's stroke and has asked for the snapshot: its
\* request is on its way, its own list still shows the stroke, the log hides it
C27_Witness ==
  /\ c2s["B"] # <<>> /\ Parse(c2s["B"][Len(c2s["B"])]).type = "get-snapshot"
  /\ Hidden(rooms[boardId].strokes) # {}
  /\ client["B"].ops # <<>> /\ Hidden(client["B"].ops) = {}
  /\ \A i \in 1..Len(s2c["B"]) : s2c["B"][i].type \notin {"undo", "redo"}
  /\ last.kind = "message" /\ Get(last.m, "type") = "undo"

\* C28: each time the connection of a page opens, on the first connect and after
\* every reconnect, the page sends hello and then get-snapshot as the first two
\* messages of that connection, nothing is written to a connection before that,
\* and each hello carries the userId of the page, so that the directory of the
\* board never holds more than one entry per page.
C28_HelloThenSnapshotOnOpen ==
  /\ [](/\ \A c \in Pages : client[c].readyState # "OPEN" => c2s[c] = <<>>
        /\ boardId \in DOMAIN rooms =>
             UserIds(rooms[boardId].users) \subseteq {userId(c) : c \in Pages})
  /\ [][\A c \in Pages :
          (client[c].readyState # "OPEN" /\ client'[c].readyState = "OPEN") =>
            /\ Len(c2s'[c]) = 2
            /\ Parse(c2s'[c][1]).type = "hello"
            /\ Parse(c2s'[c][1]).userId = userId(c)
            /\ Parse(c2s'[c][2]).type = "get-snapshot"]_vars

\* A is connected again and has just sent hello and get-snapshot: the directory
\* knows its userId and the log holds its stroke, both from the connection before
C28_Witness ==
  /\ client["A"].readyState = "OPEN"
  /\ Len(c2s["A"]) = 2 /\ Parse(c2s["A"][1]).type = "hello"
  /\ last.kind = "connection" /\ last.ws = "A"
  /\ userId("A") \in UserIds(rooms[boardId].users)
  /\ Len(rooms[boardId].strokes) = 1
  /\ client["A"].ops # <<>>

\* the page whose move handler runs in this step while it is drawing
Moving(c) ==
  /\ client[c].drawing /\ client[c].current # Null
  /\ client'[c].moves = client[c].moves + 1

\* C29: on a page, pushLocalPoint appends the point to the page's own stroke in
\* progress and changes no other stroke of the list, also when a remote begin or
\* a snapshot was applied since the local begin.
C29_LocalPointToOwnStroke ==
  [][\A c \in Pages :
       Moving(c) =>
         LET ops == client[c].ops
             after == client'[c].ops
         IN /\ Len(after) = Len(ops)
            /\ \E i \in 1..Len(ops) :
                 /\ Get(ops[i], "id") = client[c].current.id
                 /\ Get(ops[i], "userId") = userId(c)
                 /\ Len(after[i].points) = Len(ops[i].points) + 1
                 /\ \A j \in 1..Len(ops) : j # i => after[j] = ops[j]]_vars

\* C30: on a page, a point message for stroke id X appends its point to the
\* stroke with id X of the page's list and changes no other stroke, also when
\* a snapshot has replaced the list or the user has begun another stroke since;
\* a point message whose id is not in the list changes nothing.
C30_RemotePointToItsStroke ==
  [][\A c \in Pages :
       (Hearing(c) /\ Head(s2c[c]).type = "point") =>
         LET m == Head(s2c[c])
             ops == client[c].ops
             after == client'[c].ops
             i == FindOp(ops, Get(m, "id"))
         IN IF i = 0 THEN after = ops
            ELSE /\ Len(after) = Len(ops)
                 /\ after[i].points = Append(ops[i].points, m.pts[1])
                 /\ \A j \in 1..Len(ops) : j # i => after[j] = ops[j]]_vars

\* C31: on a page, once the end message of a remote user's stroke is handled the
\* active-stroke map has no entry for that user.
C31_EndStopsTracking ==
  [][\A c \in Pages :
       (Hearing(c) /\ Head(s2c[c]).type = "end") =>
         LET m == Head(s2c[c])
             i == FindOp(client[c].ops, Get(m, "id"))
         IN i # 0 =>
              Get(client[c].ops[i], "userId") \notin DOMAIN client'[c].activeByUser]_vars

\* the last message handled is an undo
UndoHandled(e) == e.kind = "message" /\ Get(e.m, "type") = "undo"

\* C32: concurrent undos never collide: every undo tombstones one stroke that was
\* visible, or none when no stroke was visible, and clears no tombstone; and two
\* undos handled one after the other in a room, from any sessions, tombstone
\* two different strokes, so that the tombstoned strokes grow by min(2, number
\* of strokes that were visible).
C32_UndosNeverCollide ==
  /\ UndoHandled(last) =>
       /\ up
       /\ Len(Now) = Len(last.pre)
       /\ Hidden(last.pre) \subseteq Hidden(Now)
       /\ Cardinality(Hidden(Now)) =
            Cardinality(Hidden(last.pre))
              + (IF Visible(last.pre) = {} THEN 0 ELSE 1)
  /\ (UndoHandled(last) /\ UndoHandled(prior) /\ prior.roomId = last.roomId) =>
       /\ Toggled(prior.pre, last.pre) \cap Toggled(last.pre, Now) = {}
       /\ Cardinality(Hidden(Now)) =
            Cardinality(Hidden(prior.pre))
              + (IF Cardinality(Visible(prior.pre)) >= 2 THEN 2
                 ELSE Cardinality(Visible(prior.pre)))

\* A's undo and then B's undo hid two different strokes of a log of three
C32_Witness ==
  /\ UndoHandled(last) /\ last.ws = "B"
  /\ UndoHandled(prior) /\ prior.ws = "A"
  /\ Len(Now) = 3 /\ Hidden(prior.pre) = {}
  /\ Hidden(Now) = {2, 3}

\* C33: the Wire of a page has at most one socket that is connecting or open:
\* no socket other than this.ws is alive, and exactly one reconnect is pending
\* when this.ws is closed and none otherwise; and whenever its socket is closed,
\* after a drop or a failed attempt, a new connection attempt is eventually made.
C33_OneSocketAndRetry ==
  /\ [](\A c \in Pages :
          /\ client[c].stale = 0
          /\ client[c].timers = (IF client[c].readyState = "CLOSED" THEN 1 ELSE 0))
  /\ \A c \in Pages :
       (client[c].readyState = "CLOSED") ~> (client[c].readyState = "CONNECTING")

\* A is connecting again, the server has not accepted it yet, and the board
\* knows A from the connection it lost
C33_Witness ==
  /\ client["A"].readyState = "CONNECTING"
  /\ client["A"].timers = 0 /\ client["A"].stale = 0
  /\ conn["A"].readyState = "NONE"
  /\ boardId \in DOMAIN rooms /\ userId("A") \in UserIds(rooms[boardId].users)

\* C34: a room's user directory never loses an entry: over every step, a
\* message or a close included, each room keeps its directory's userIds, and
\* every users list the server sends holds all the userIds the room's directory
\* held before the step; so a list sent after a session has closed still holds
\* the userId that session said hello with.
C34_DirectoryKeepsEntries ==
  [][\A r \in DOMAIN rooms :
       /\ r \in DOMAIN rooms'
       /\ UserIds(rooms[r].users) \subseteq UserIds(rooms'[r].users)
       /\ (last'.kind = "message" /\ last'.roomId = r) =>
            \A w \in WS : \A i \in 1..Len(sent'[w]) :
              sent'[w][i].type = "users" =>
                UserIds(rooms[r].users) \subseteq UserIds(sent'[w][i].users)]_vars

\* the page of u1 has lost its connection and has not made a new one; the hello
\* of u2's page is answered with a list that holds u1
C34_Witness ==
  /\ client["A"].readyState = "CLOSED" /\ conn["A"].readyState = "NONE"
  /\ last.kind = "message" /\ last.ws = "B" /\ Get(last.m, "type") = "hello"
  /\ rooms[boardId].clients = {"B"}
  /\ Len(sent["B"]) = 1 /\ sent["B"][1].type = "users"
  /\ UserIds(sent["B"][1].users) = {userId("A"), userId("B")}

\* the ids of the strokes of page c that have been written to its socket or
\* have reached the log of the board
Transmitted(c) ==
  {Get(Parse(c2s[c][i]), "id") :
     i \in {j \in 1..Len(c2s[c]) : Get(Parse(c2s[c][j]), "type") = "op-begin"}}
  \cup (IF boardId \in DOMAIN rooms
        THEN {rooms[boardId].strokes[i].id : i \in 1..Len(rooms[boardId].strokes)}
        ELSE {})

\* C35: what a page sends while its socket is not open is dropped and never
\* transmitted later: a step of a page whose socket is not open and stays so
\* writes nothing, and a stroke whose op-begin was not written when the stroke
\* began, the socket not being open, or was lost with the connection, is never
\* written afterwards and never reaches the log, reconnects included.
C35_DroppedNeverSent ==
  [][\A c \in Pages :
       /\ (client[c].readyState # "OPEN" /\ client'[c].readyState # "OPEN") =>
            c2s'[c] = c2s[c]
       /\ \A n \in 1..client'[c].ids :
            ( /\ n <= client[c].ids \/ client[c].readyState # "OPEN"
              /\ nanoid(c, n) \notin Transmitted(c) ) =>
              nanoid(c, n) \notin Transmitted(c)']_vars

\* A began and ended a stroke while its first socket was connecting and no
\* connection had been accepted by the server: the board holds the stroke,
\* nothing was written
C35_Witness ==
  /\ client["A"].ids = 1 /\ ~client["A"].drawing
  /\ Len(client["A"].ops) = 1
  /\ client["A"].readyState = "CONNECTING"
  /\ rooms = EmptyObj
  /\ c2s["A"] = <<>>

====
